---- MODULE Spec2Model ----
(***************************************************************************)
(* scan2eat: the meal-plan wallet of src/app.py over the tables of         *)
(* src/models.py.                                                          *)
(*                                                                         *)
(* The database is the committed state (users, wallet_transactions, meals, *)
(* attendance, refund_requests).  A request handler is a worker that runs  *)
(* the before_request sweep, then one step per database round trip of its  *)
(* route: every SELECT reads the committed state of that moment into the   *)
(* handler's ORM objects (loc), and db.session.commit() writes the values  *)
(* computed from those objects.  Money is counted in whole currency units, *)
(* time in ticks of HoursPerTick hours.  Columns no decision reads         *)
(* (password_hash, name, room_number, qr_code_path, menu_items, reason,    *)
(* created_at) are left out.                                               *)
(***************************************************************************)
EXTENDS Integers, Sequences, FiniteSets, TLC

VARIABLES users, txns, meals, attendance, refunds, next_meal_id, now, pc, loc, resp

db == <<users, txns, meals, attendance, refunds, next_meal_id>>
vars == <<users, txns, meals, attendance, refunds, next_meal_id, now, pc, loc, resp>>

(***************************************************************************)
(* Bounds of the model.                                                    *)
(***************************************************************************)
MaxMeals == 2
MaxTxns == 3
MaxRefunds == 2
MaxNow == 3

Workers == {"w1", "w2"}

(***************************************************************************)
(* Time.  datetime.now() is the tick counter, date.today() its day.        *)
(***************************************************************************)
RefundWindowHours == 24
HoursPerTick == RefundWindowHours \div 2
TicksPerDay == 24 \div HoursPerTick
Today == now \div TicksPerDay

(***************************************************************************)
(* Rows.  A No... row stands for None / no row loaded.                     *)
(***************************************************************************)
NoTime == -1
NoRemarks == "<null>"

NoUser == [id |-> 0, username |-> "", role |-> "", is_active |-> FALSE, wallet_balance |-> 0]
NoMeal == [id |-> 0, date |-> 0, meal_type |-> "", price |-> 0, is_active |-> FALSE]
NoAttendance == [id |-> 0, user_id |-> 0, meal_id |-> 0, amount_paid |-> 0, scanned_at |-> NoTime]
NoRefund ==
    [id |-> 0, user_id |-> 0, attendance_id |-> 0, amount |-> 0, status |-> "",
     admin_remarks |-> NoRemarks, processed_at |-> NoTime]

User(id, username, role, wallet_balance) ==
    [id |-> id, username |-> username, role |-> role, is_active |-> TRUE,
     wallet_balance |-> wallet_balance]

WalletTransaction(user_id, amount, transaction_type, description, balance_after) ==
    [user_id |-> user_id, amount |-> amount, transaction_type |-> transaction_type,
     description |-> description, balance_after |-> balance_after]

Meal(id, date, meal_type, price) ==
    [id |-> id, date |-> date, meal_type |-> meal_type, price |-> price, is_active |-> TRUE]

Attendance(id, user_id, meal_id, amount_paid, scanned_at) ==
    [id |-> id, user_id |-> user_id, meal_id |-> meal_id, amount_paid |-> amount_paid,
     scanned_at |-> scanned_at]

RefundRequest(id, user_id, attendance_id, amount) ==
    [id |-> id, user_id |-> user_id, attendance_id |-> attendance_id, amount |-> amount,
     status |-> "pending", admin_remarks |-> NoRemarks, processed_at |-> NoTime]

(***************************************************************************)
(* The database after init_db.py: the tables exist and hold the default    *)
(* admin account alone.                                                    *)
(***************************************************************************)
AdminUser == User(1, "admin", "admin", 0)

(***************************************************************************)
(* Queries.                                                                *)
(***************************************************************************)
Rows(table) == {table[i] : i \in 1..Len(table)}

First(rows, none) ==
    IF rows = {} THEN none
    ELSE CHOOSE r \in rows : \A q \in rows : r.id <= q.id

UserGet(id) == IF id \in 1..Len(users) THEN users[id] ELSE NoUser

MealGet(id) == First({m \in meals : m.id = id}, NoMeal)

AttendanceGet(id) == IF id \in 1..Len(attendance) THEN attendance[id] ELSE NoAttendance

RefundGet(id) == IF id \in 1..Len(refunds) THEN refunds[id] ELSE NoRefund

(***************************************************************************)
(* A flushed attribute: SQLAlchemy writes a column only when the handler   *)
(* set it to a value other than the one it loaded.                         *)
(***************************************************************************)
SetBalance(table, student, balance) ==
    IF balance = student.wallet_balance THEN table
    ELSE [table EXCEPT ![student.id].wallet_balance = balance]

(***************************************************************************)
(* before_request: the expired-meal sweep.                                 *)
(***************************************************************************)
\* mutant: <= for <, the meals of today are deactivated too
deactivate_past_meals_Inclusive(catalog, today) ==
    {IF m.date <= today /\ m.is_active = TRUE THEN [m EXCEPT !.is_active = FALSE] ELSE m :
        m \in catalog}

deactivate_past_meals(catalog, today) ==
    {IF m.date < today /\ m.is_active = TRUE THEN [m EXCEPT !.is_active = FALSE] ELSE m :
        m \in catalog}

(***************************************************************************)
(* Requests: the route and its form / JSON / URL values, and the handler's *)
(* loaded rows.                                                            *)
(***************************************************************************)
NoLoc ==
    [op |-> "", roll |-> "", id |-> 0, amount |-> 0, date |-> 0, meal_type |-> "",
     is_active |-> FALSE, action |-> "", current_user |-> 0,
     student |-> NoUser, meal |-> NoMeal, attendance |-> NoAttendance, refund |-> NoRefund,
     today_meals |-> {}]

NoResp == [success |-> FALSE, message |-> "", new_balance |-> 0]

Fail(message) == [success |-> FALSE, message |-> message, new_balance |-> 0]
Ok(message) == [success |-> TRUE, message |-> message, new_balance |-> 0]

Respond(w, r) ==
    /\ resp' = [resp EXCEPT ![w] = r]
    /\ pc' = [pc EXCEPT ![w] = "respond"]

Goto(w, label) ==
    /\ pc' = [pc EXCEPT ![w] = label]
    /\ UNCHANGED resp

\* mutant: the request starts without the sweep
before_request_NoSweep(w, req) ==
    /\ pc[w] = "idle"
    /\ loc' = [loc EXCEPT ![w] = req]
    /\ pc' = [pc EXCEPT ![w] = req.op]
    /\ UNCHANGED <<db, now, resp>>

before_request(w, req) ==
    /\ pc[w] = "idle"
    /\ meals' = deactivate_past_meals(meals, Today)
    /\ loc' = [loc EXCEPT ![w] = req]
    /\ pc' = [pc EXCEPT ![w] = req.op]
    /\ UNCHANGED <<users, txns, attendance, refunds, next_meal_id, now, resp>>

send_response(w) ==
    /\ pc[w] = "respond"
    /\ pc' = [pc EXCEPT ![w] = "idle"]
    /\ loc' = [loc EXCEPT ![w] = NoLoc]
    /\ resp' = [resp EXCEPT ![w] = NoResp]
    /\ UNCHANGED <<db, now>>

(***************************************************************************)
(* process_scan                                                            *)
(***************************************************************************)
MsgStudentNotFound == "Student not found."
MsgDeactivated == "Student account is deactivated."
MsgMealNotFound == "Meal not found."
MsgAlreadyScanned == "has already scanned for this meal."
MsgInsufficient == "Insufficient balance."
MsgScanSuccess == "Success!"
MsgIntegrityError == "IntegrityError"

FindStudent(roll_number) ==
    First({u \in Rows(users) : u.username = roll_number /\ u.role = "student"}, NoUser)

\* mutant: the filter compares meal_id with the student's id
ExistingAttendance_WrongColumn(user_id, meal_id) ==
    First({a \in Rows(attendance) : a.user_id = user_id /\ a.meal_id = user_id}, NoAttendance)

ExistingAttendance(user_id, meal_id) ==
    First({a \in Rows(attendance) : a.user_id = user_id /\ a.meal_id = meal_id}, NoAttendance)

\* mutant: <= for <, a balance equal to the price is refused
InsufficientBalance_OffByOne(wallet_balance, price) == wallet_balance <= price

\* mutant: only an empty wallet is refused
InsufficientBalance_EmptyOnly(wallet_balance, price) == wallet_balance <= 0

InsufficientBalance(wallet_balance, price) == wallet_balance < price

Capitalize(meal_type) ==
    CASE meal_type = "breakfast" -> "Breakfast"
      [] meal_type = "lunch" -> "Lunch"
      [] meal_type = "dinner" -> "Dinner"
      [] OTHER -> meal_type

ScanDescription(meal) == Capitalize(meal.meal_type) \o " on " \o ToString(meal.date)

process_scan_student(w) ==
    /\ pc[w] = "process_scan"
    /\ LET student == FindStudent(loc[w].roll) IN
        /\ loc' = [loc EXCEPT ![w].student = student]
        /\ IF student = NoUser THEN Respond(w, Fail(MsgStudentNotFound))
           ELSE IF ~student.is_active THEN Respond(w, Fail(MsgDeactivated))
           ELSE Goto(w, "process_scan_meal")
    /\ UNCHANGED <<db, now>>

process_scan_meal(w) ==
    /\ pc[w] = "process_scan_meal"
    /\ LET meal == MealGet(loc[w].id) IN
        /\ loc' = [loc EXCEPT ![w].meal = meal]
        /\ IF meal = NoMeal THEN Respond(w, Fail(MsgMealNotFound))
           ELSE Goto(w, "process_scan_attendance")
    /\ UNCHANGED <<db, now>>

\* mutant: the balance check comes before the attendance check
process_scan_attendance_BalanceFirst(w) ==
    /\ pc[w] = "process_scan_attendance"
    /\ IF loc[w].student.wallet_balance < loc[w].meal.price
       THEN Respond(w, Fail(MsgInsufficient))
       ELSE IF \E a \in Rows(attendance) :
                    a.user_id = loc[w].student.id /\ a.meal_id = loc[w].meal.id
       THEN Respond(w, Fail(MsgAlreadyScanned))
       ELSE Goto(w, "process_scan_commit")
    /\ UNCHANGED <<db, now, loc>>

process_scan_attendance(w) ==
    /\ pc[w] = "process_scan_attendance"
    /\ LET existing_attendance == ExistingAttendance(loc[w].student.id, loc[w].meal.id) IN
        IF existing_attendance # NoAttendance THEN Respond(w, Fail(MsgAlreadyScanned))
        ELSE IF InsufficientBalance(loc[w].student.wallet_balance, loc[w].meal.price)
        THEN Respond(w, Fail(MsgInsufficient))
        ELSE Goto(w, "process_scan_commit")
    /\ UNCHANGED <<db, now, loc>>

ScanTransaction(student, meal, balance) ==
    WalletTransaction(student.id, -meal.price, "debit", ScanDescription(meal), balance)

ScanAttendance(id, student, meal, at) == Attendance(id, student.id, meal.id, meal.price, at)

\* mutant: the debit is committed on its own, before the attendance INSERT
process_scan_commit_DebitFirst(w) ==
    /\ pc[w] = "process_scan_commit"
    /\ LET student == loc[w].student
           meal == loc[w].meal
           balance == student.wallet_balance - meal.price
       IN
        /\ users' = SetBalance(users, student, balance)
        /\ txns' = Append(txns, ScanTransaction(student, meal, balance))
        /\ IF MealGet(meal.id) = NoMeal
           THEN Respond(w, Fail(MsgIntegrityError)) /\ UNCHANGED attendance
           ELSE /\ attendance' = Append(attendance,
                                        ScanAttendance(Len(attendance) + 1, student, meal, now))
                /\ Respond(w, [success |-> TRUE, message |-> MsgScanSuccess,
                               new_balance |-> balance])
    /\ UNCHANGED <<meals, refunds, next_meal_id, now, loc>>

\* attendance.meal_id is a foreign key: the INSERT for a meal deleted meanwhile fails
\* and the whole transaction rolls back.
process_scan_commit(w) ==
    /\ pc[w] = "process_scan_commit"
    /\ LET student == loc[w].student
           meal == loc[w].meal
           balance == student.wallet_balance - meal.price
       IN
        IF MealGet(meal.id) = NoMeal
        THEN /\ Respond(w, Fail(MsgIntegrityError))
             /\ UNCHANGED <<users, txns, attendance>>
        ELSE /\ users' = SetBalance(users, student, balance)
             /\ txns' = Append(txns, ScanTransaction(student, meal, balance))
             /\ attendance' = Append(attendance,
                                     ScanAttendance(Len(attendance) + 1, student, meal, now))
             /\ Respond(w, [success |-> TRUE, message |-> MsgScanSuccess,
                            new_balance |-> balance])
    /\ UNCHANGED <<meals, refunds, next_meal_id, now, loc>>

process_scan(w) ==
    \/ process_scan_student(w)
    \/ process_scan_meal(w)
    \/ process_scan_attendance(w)
    \/ process_scan_commit(w)

(***************************************************************************)
(* register_student                                                        *)
(***************************************************************************)
MsgInvalidRoll == "Invalid roll number format."
MsgRollExists == "Roll number already registered."
MsgRegistered == "registered successfully!"

RollInputs == {"2024-cs-1", "2024-CS-1", "CS-1"}

\* re.match(r'^\d{4}-[A-Za-z]{2,5}-\d{1,4}$', roll_number) on the inputs drawn
RollPatternMatches(roll_number) == roll_number \in {"2024-cs-1", "2024-CS-1"}

\* roll_number.upper()
Upper(roll_number) ==
    CASE roll_number = "2024-cs-1" -> "2024-CS-1"
      [] OTHER -> roll_number

UsernameTaken(username) == \E u \in Rows(users) : u.username = username

InitialTransactionDue(initial_balance) == initial_balance > 0

register_student_check(w) ==
    /\ pc[w] = "register_student"
    /\ IF ~RollPatternMatches(loc[w].roll)
       THEN Respond(w, Fail(MsgInvalidRoll)) /\ UNCHANGED loc
       ELSE LET roll_number == Upper(loc[w].roll) IN
            /\ loc' = [loc EXCEPT ![w].roll = roll_number]
            /\ IF UsernameTaken(roll_number) THEN Respond(w, Fail(MsgRollExists))
               ELSE Goto(w, "register_student_user")
    /\ UNCHANGED <<db, now>>

\* users.username is unique: the INSERT of a username committed meanwhile fails.
register_student_user(w) ==
    /\ pc[w] = "register_student_user"
    /\ IF UsernameTaken(loc[w].roll)
       THEN /\ Respond(w, Fail(MsgIntegrityError))
            /\ UNCHANGED <<users, loc>>
       ELSE LET new_user == User(Len(users) + 1, loc[w].roll, "student", loc[w].amount) IN
            /\ users' = Append(users, new_user)
            /\ loc' = [loc EXCEPT ![w].student = new_user]
            /\ IF InitialTransactionDue(loc[w].amount) THEN Goto(w, "register_student_txn")
               ELSE Respond(w, Ok(MsgRegistered))
    /\ UNCHANGED <<txns, meals, attendance, refunds, next_meal_id, now>>

register_student_txn(w) ==
    /\ pc[w] = "register_student_txn"
    /\ txns' = Append(txns, WalletTransaction(loc[w].student.id, loc[w].amount, "credit",
                                               "Initial wallet balance", loc[w].amount))
    /\ Respond(w, Ok(MsgRegistered))
    /\ UNCHANGED <<users, meals, attendance, refunds, next_meal_id, now, loc>>

register_student(w) ==
    \/ register_student_check(w)
    \/ register_student_user(w)
    \/ register_student_txn(w)

(***************************************************************************)
(* toggle_student_status (delete_student is the same write of FALSE)       *)
(***************************************************************************)
MsgInvalidStudent == "Invalid student"
MsgNotFound404 == "404 Not Found"
MsgToggled == "has been activated/deactivated"

toggle_student_status_load(w) ==
    /\ pc[w] = "toggle_student_status"
    /\ LET student == UserGet(loc[w].id) IN
        /\ loc' = [loc EXCEPT ![w].student = student]
        /\ IF student = NoUser THEN Respond(w, Fail(MsgNotFound404))
           ELSE IF student.role # "student" THEN Respond(w, Fail(MsgInvalidStudent))
           ELSE Goto(w, "toggle_student_status_commit")
    /\ UNCHANGED <<db, now>>

toggle_student_status_commit(w) ==
    /\ pc[w] = "toggle_student_status_commit"
    /\ users' = [users EXCEPT ![loc[w].student.id].is_active = ~loc[w].student.is_active]
    /\ Respond(w, Ok(MsgToggled))
    /\ UNCHANGED <<txns, meals, attendance, refunds, next_meal_id, now, loc>>

toggle_student_status(w) ==
    \/ toggle_student_status_load(w)
    \/ toggle_student_status_commit(w)

(***************************************************************************)
(* add_balance (form route) and api_add_balance (JSON route)               *)
(***************************************************************************)
MsgAdded == "Added to wallet"
MsgInvalidAmount == "Invalid amount"

CreditTransaction(student, amount, description, balance) ==
    WalletTransaction(student.id, amount, "credit", description, balance)

add_balance_load(w) ==
    /\ pc[w] = "add_balance"
    /\ LET student == UserGet(loc[w].id) IN
        /\ loc' = [loc EXCEPT ![w].student = student]
        /\ IF student = NoUser THEN Respond(w, Fail(MsgStudentNotFound))
           ELSE Goto(w, "add_balance_commit")
    /\ UNCHANGED <<db, now>>

InvalidAmount(amount) == amount <= 0

api_add_balance_load(w) ==
    /\ pc[w] = "api_add_balance"
    /\ IF InvalidAmount(loc[w].amount)
       THEN Respond(w, Fail(MsgInvalidAmount)) /\ UNCHANGED loc
       ELSE LET student == UserGet(loc[w].id) IN
            /\ loc' = [loc EXCEPT ![w].student = student]
            /\ IF student = NoUser THEN Respond(w, Fail(MsgStudentNotFound))
               ELSE Goto(w, "add_balance_commit")
    /\ UNCHANGED <<db, now>>

\* lines 321-331 and 771-781 are the same write
add_balance_commit(w) ==
    /\ pc[w] = "add_balance_commit"
    /\ LET student == loc[w].student
           balance == student.wallet_balance + loc[w].amount
       IN
        /\ users' = SetBalance(users, student, balance)
        /\ txns' = Append(txns, CreditTransaction(student, loc[w].amount,
                                                   "Balance added by admin", balance))
        /\ Respond(w, [success |-> TRUE, message |-> MsgAdded, new_balance |-> balance])
    /\ UNCHANGED <<meals, attendance, refunds, next_meal_id, now, loc>>

add_balance(w) ==
    \/ add_balance_load(w)
    \/ api_add_balance_load(w)
    \/ add_balance_commit(w)

(***************************************************************************)
(* manage_meals (create), edit_meal, delete_meal, toggle_meal              *)
(***************************************************************************)
MsgMealExists == "This meal already exists for the selected date."
MsgMealAdded == "Meal added successfully!"
MsgOtherMealExists == "Another meal already exists for this date and type."
MsgMealUpdated == "Meal updated successfully!"
MsgMealHasAttendance == "Cannot delete meal with attendance records"
MsgMealDeleted == "Meal deleted"
MsgMealToggled == "toggled"
MsgStaleData == "StaleDataError"

ExistingMeal(meal_date, meal_type) ==
    First({m \in meals : m.date = meal_date /\ m.meal_type = meal_type}, NoMeal)

\* mutant: the filter lacks Meal.id != meal_id, the edited meal collides with itself
ExistingOtherMeal_IncludesSelf(meal_date, meal_type, meal_id) ==
    First({m \in meals : m.date = meal_date /\ m.meal_type = meal_type}, NoMeal)

ExistingOtherMeal(meal_date, meal_type, meal_id) ==
    First({m \in meals : m.date = meal_date /\ m.meal_type = meal_type /\ m.id # meal_id},
          NoMeal)

manage_meals_check(w) ==
    /\ pc[w] = "manage_meals"
    /\ IF ExistingMeal(loc[w].date, loc[w].meal_type) # NoMeal
       THEN Respond(w, Fail(MsgMealExists))
       ELSE Goto(w, "manage_meals_commit")
    /\ UNCHANGED <<db, now, loc>>

manage_meals_commit(w) ==
    /\ pc[w] = "manage_meals_commit"
    /\ meals' = meals \cup {Meal(next_meal_id, loc[w].date, loc[w].meal_type, loc[w].amount)}
    /\ next_meal_id' = next_meal_id + 1
    /\ Respond(w, Ok(MsgMealAdded))
    /\ UNCHANGED <<users, txns, attendance, refunds, now, loc>>

manage_meals(w) ==
    \/ manage_meals_check(w)
    \/ manage_meals_commit(w)

edit_meal_load(w) ==
    /\ pc[w] = "edit_meal"
    /\ LET meal == MealGet(loc[w].id) IN
        /\ loc' = [loc EXCEPT ![w].meal = meal]
        /\ IF meal = NoMeal THEN Respond(w, Fail(MsgNotFound404))
           ELSE Goto(w, "edit_meal_check")
    /\ UNCHANGED <<db, now>>

edit_meal_check(w) ==
    /\ pc[w] = "edit_meal_check"
    /\ IF ExistingOtherMeal(loc[w].date, loc[w].meal_type, loc[w].id) # NoMeal
       THEN Respond(w, Fail(MsgOtherMealExists))
       ELSE Goto(w, "edit_meal_commit")
    /\ UNCHANGED <<db, now, loc>>

\* The UPDATE sets the columns whose form value differs from the loaded one.
EditedMeal(row, loaded, form) ==
    [row EXCEPT
        !.date = IF form.date # loaded.date THEN form.date ELSE @,
        !.meal_type = IF form.meal_type # loaded.meal_type THEN form.meal_type ELSE @,
        !.price = IF form.amount # loaded.price THEN form.amount ELSE @,
        !.is_active = IF form.is_active # loaded.is_active THEN form.is_active ELSE @]

ReplaceMeal(catalog, meal_id, row) == {m \in catalog : m.id # meal_id} \cup {row}

\* mutant: the edit also rewrites amount_paid of the meal's attendance rows
edit_meal_commit_Reprices(w) ==
    /\ pc[w] = "edit_meal_commit"
    /\ LET row == MealGet(loc[w].id) IN
        IF row = NoMeal
        THEN Respond(w, Fail(MsgStaleData)) /\ UNCHANGED <<meals, attendance>>
        ELSE /\ meals' = ReplaceMeal(meals, row.id, EditedMeal(row, loc[w].meal, loc[w]))
             /\ attendance' = [i \in 1..Len(attendance) |->
                    IF attendance[i].meal_id = row.id
                    THEN [attendance[i] EXCEPT !.amount_paid = loc[w].amount]
                    ELSE attendance[i]]
             /\ Respond(w, Ok(MsgMealUpdated))
    /\ UNCHANGED <<users, txns, refunds, next_meal_id, now, loc>>

edit_meal_commit(w) ==
    /\ pc[w] = "edit_meal_commit"
    /\ LET row == MealGet(loc[w].id) IN
        IF row = NoMeal
        THEN Respond(w, Fail(MsgStaleData)) /\ UNCHANGED meals
        ELSE /\ meals' = ReplaceMeal(meals, row.id, EditedMeal(row, loc[w].meal, loc[w]))
             /\ Respond(w, Ok(MsgMealUpdated))
    /\ UNCHANGED <<users, txns, attendance, refunds, next_meal_id, now, loc>>

edit_meal(w) ==
    \/ edit_meal_load(w)
    \/ edit_meal_check(w)
    \/ edit_meal_commit(w)

AttendanceCount(meal_id) == Cardinality({a \in Rows(attendance) : a.meal_id = meal_id})

delete_meal_load(w) ==
    /\ pc[w] = "delete_meal"
    /\ LET meal == MealGet(loc[w].id) IN
        /\ loc' = [loc EXCEPT ![w].meal = meal]
        /\ IF meal = NoMeal THEN Respond(w, Fail(MsgNotFound404))
           ELSE Goto(w, "delete_meal_count")
    /\ UNCHANGED <<db, now>>

\* mutant: the attendance count is not looked at
delete_meal_count_Skipped(w) ==
    /\ pc[w] = "delete_meal_count"
    /\ Goto(w, "delete_meal_commit")
    /\ UNCHANGED <<db, now, loc>>

delete_meal_count(w) ==
    /\ pc[w] = "delete_meal_count"
    /\ IF AttendanceCount(loc[w].meal.id) > 0
       THEN Respond(w, Fail(MsgMealHasAttendance))
       ELSE Goto(w, "delete_meal_commit")
    /\ UNCHANGED <<db, now, loc>>

\* attendance.meal_id is a NOT NULL foreign key: the DELETE of a referenced meal fails.
delete_meal_commit(w) ==
    /\ pc[w] = "delete_meal_commit"
    /\ IF MealGet(loc[w].id) = NoMeal
       THEN Respond(w, Fail(MsgStaleData)) /\ UNCHANGED meals
       ELSE IF AttendanceCount(loc[w].id) > 0
       THEN Respond(w, Fail(MsgIntegrityError)) /\ UNCHANGED meals
       ELSE /\ meals' = {m \in meals : m.id # loc[w].id}
            /\ Respond(w, Ok(MsgMealDeleted))
    /\ UNCHANGED <<users, txns, attendance, refunds, next_meal_id, now, loc>>

delete_meal(w) ==
    \/ delete_meal_load(w)
    \/ delete_meal_count(w)
    \/ delete_meal_commit(w)

\* loc.action is the JSON is_active: "true", "false" or "absent"
ToggledActive(meal, given) ==
    CASE given = "true" -> TRUE
      [] given = "false" -> FALSE
      [] OTHER -> ~meal.is_active

toggle_meal_load(w) ==
    /\ pc[w] = "toggle_meal"
    /\ LET meal == MealGet(loc[w].id) IN
        /\ loc' = [loc EXCEPT ![w].meal = meal]
        /\ IF meal = NoMeal THEN Respond(w, Fail(MsgNotFound404))
           ELSE Goto(w, "toggle_meal_commit")
    /\ UNCHANGED <<db, now>>

toggle_meal_commit(w) ==
    /\ pc[w] = "toggle_meal_commit"
    /\ LET row == MealGet(loc[w].id)
           is_active == ToggledActive(loc[w].meal, loc[w].action)
       IN
        IF is_active = loc[w].meal.is_active
        THEN Respond(w, Ok(MsgMealToggled)) /\ UNCHANGED meals
        ELSE IF row = NoMeal
        THEN Respond(w, Fail(MsgStaleData)) /\ UNCHANGED meals
        ELSE /\ meals' = ReplaceMeal(meals, row.id, [row EXCEPT !.is_active = is_active])
             /\ Respond(w, Ok(MsgMealToggled))
    /\ UNCHANGED <<users, txns, attendance, refunds, next_meal_id, now, loc>>

toggle_meal(w) ==
    \/ toggle_meal_load(w)
    \/ toggle_meal_commit(w)

(***************************************************************************)
(* scan_qr: the scan page lists the active meals of today.                 *)
(***************************************************************************)
MsgScanPage == "admin/scan.html"

TodayMeals(catalog, today) == {m \in catalog : m.date = today /\ m.is_active = TRUE}

scan_qr(w) ==
    /\ pc[w] = "scan_qr"
    /\ loc' = [loc EXCEPT ![w].today_meals = TodayMeals(meals, Today)]
    /\ Respond(w, Ok(MsgScanPage))
    /\ UNCHANGED <<db, now>>

(***************************************************************************)
(* request_refund                                                          *)
(***************************************************************************)
MsgUnauthorized == "Unauthorized"
MsgRefundExists == "Refund already requested for this meal"
MsgWindowExpired == "Refund can only be requested within 24 hours of scanning"
MsgRefundSubmitted == "Refund request submitted successfully"

\* mutant: only a pending request blocks a new one
ExistingRequest_PendingOnly(attendance_id) ==
    First({r \in Rows(refunds) : r.attendance_id = attendance_id /\ r.status = "pending"},
          NoRefund)

ExistingRequest(attendance_id) ==
    First({r \in Rows(refunds) : r.attendance_id = attendance_id}, NoRefund)

\* mutant: >= for >, a request exactly 24 hours after the scan is refused
WindowExpired_Inclusive(at, scanned_at) ==
    (at - scanned_at) * HoursPerTick >= RefundWindowHours

\* datetime.now() - attendance.scanned_at > timedelta(hours=24)
WindowExpired(at, scanned_at) == (at - scanned_at) * HoursPerTick > RefundWindowHours

\* mutant: the attendance's owner is not compared with the caller
request_refund_load_NoOwnerCheck(w) ==
    /\ pc[w] = "request_refund"
    /\ IF UserGet(loc[w].current_user).role # "student"
       THEN Respond(w, Fail(MsgUnauthorized)) /\ UNCHANGED loc
       ELSE LET att == AttendanceGet(loc[w].id) IN
            /\ loc' = [loc EXCEPT ![w].attendance = att]
            /\ IF att = NoAttendance THEN Respond(w, Fail(MsgNotFound404))
               ELSE Goto(w, "request_refund_check")
    /\ UNCHANGED <<db, now>>

request_refund_load(w) ==
    /\ pc[w] = "request_refund"
    /\ IF UserGet(loc[w].current_user).role # "student"
       THEN Respond(w, Fail(MsgUnauthorized)) /\ UNCHANGED loc
       ELSE LET att == AttendanceGet(loc[w].id) IN
            /\ loc' = [loc EXCEPT ![w].attendance = att]
            /\ IF att = NoAttendance THEN Respond(w, Fail(MsgNotFound404))
               ELSE IF att.user_id # loc[w].current_user THEN Respond(w, Fail(MsgUnauthorized))
               ELSE Goto(w, "request_refund_check")
    /\ UNCHANGED <<db, now>>

request_refund_check(w) ==
    /\ pc[w] = "request_refund_check"
    /\ IF ExistingRequest(loc[w].id) # NoRefund THEN Respond(w, Fail(MsgRefundExists))
       ELSE IF WindowExpired(now, loc[w].attendance.scanned_at)
       THEN Respond(w, Fail(MsgWindowExpired))
       ELSE Goto(w, "request_refund_commit")
    /\ UNCHANGED <<db, now, loc>>

request_refund_commit(w) ==
    /\ pc[w] = "request_refund_commit"
    /\ refunds' = Append(refunds, RefundRequest(Len(refunds) + 1, loc[w].current_user,
                                                loc[w].id, loc[w].attendance.amount_paid))
    /\ Respond(w, Ok(MsgRefundSubmitted))
    /\ UNCHANGED <<users, txns, meals, attendance, next_meal_id, now, loc>>

request_refund(w) ==
    \/ request_refund_load(w)
    \/ request_refund_check(w)
    \/ request_refund_commit(w)

(***************************************************************************)
(* process_refund                                                          *)
(***************************************************************************)
MsgAlreadyProcessed == "Request already processed"
MsgRefundApproved == "approved and credited to student wallet"
MsgRefundRejected == "Refund request rejected"
MsgInvalidAction == "Invalid action"

Remarks == "checked"

RefundDescription(meal) == "Refund for " \o meal.meal_type \o " on " \o ToString(meal.date)

Processed(row, status, at) ==
    [row EXCEPT !.status = status, !.admin_remarks = Remarks, !.processed_at = at]

\* mutant: every action other than approve takes the reject branch
process_refund_load_ElseRejects(w) ==
    /\ pc[w] = "process_refund"
    /\ LET refund_request == RefundGet(loc[w].id) IN
        /\ loc' = [loc EXCEPT ![w].refund = refund_request]
        /\ IF refund_request = NoRefund THEN Respond(w, Fail(MsgNotFound404))
           ELSE IF refund_request.status # "pending" THEN Respond(w, Fail(MsgAlreadyProcessed))
           ELSE IF loc[w].action = "approve" THEN Goto(w, "process_refund_student")
           ELSE Goto(w, "process_refund_reject")
    /\ UNCHANGED <<db, now>>

process_refund_load(w) ==
    /\ pc[w] = "process_refund"
    /\ LET refund_request == RefundGet(loc[w].id) IN
        /\ loc' = [loc EXCEPT ![w].refund = refund_request]
        /\ IF refund_request = NoRefund THEN Respond(w, Fail(MsgNotFound404))
           ELSE IF refund_request.status # "pending" THEN Respond(w, Fail(MsgAlreadyProcessed))
           ELSE IF loc[w].action = "approve" THEN Goto(w, "process_refund_student")
           ELSE IF loc[w].action = "reject" THEN Goto(w, "process_refund_reject")
           ELSE Respond(w, Fail(MsgInvalidAction))
    /\ UNCHANGED <<db, now>>

\* refund_request.user and refund_request.attendance.meal load on first use
process_refund_student(w) ==
    /\ pc[w] = "process_refund_student"
    /\ loc' = [loc EXCEPT ![w].student = UserGet(loc[w].refund.user_id),
                          ![w].meal = MealGet(AttendanceGet(loc[w].refund.attendance_id).meal_id)]
    /\ Goto(w, "process_refund_approve")
    /\ UNCHANGED <<db, now>>

\* mutant: the refund is the meal's price of the moment
RefundCredit_CurrentPrice(refund_request) ==
    MealGet(AttendanceGet(refund_request.attendance_id).meal_id).price

RefundCredit(refund_request) == refund_request.amount

process_refund_approve(w) ==
    /\ pc[w] = "process_refund_approve"
    /\ LET student == loc[w].student
           amount == RefundCredit(loc[w].refund)
           balance == student.wallet_balance + amount
       IN
        /\ users' = SetBalance(users, student, balance)
        /\ txns' = Append(txns, CreditTransaction(student, amount,
                                                   RefundDescription(loc[w].meal), balance))
        /\ refunds' = [refunds EXCEPT ![loc[w].id] = Processed(@, "approved", now)]
        /\ Respond(w, Ok(MsgRefundApproved))
    /\ UNCHANGED <<meals, attendance, next_meal_id, now, loc>>

\* mutant: the reject branch credits the wallet as the approve branch does
process_refund_reject_Credits(w) ==
    /\ pc[w] = "process_refund_reject"
    /\ LET student == UserGet(loc[w].refund.user_id)
           balance == student.wallet_balance + loc[w].refund.amount
       IN
        /\ users' = SetBalance(users, student, balance)
        /\ txns' = Append(txns, CreditTransaction(student, loc[w].refund.amount,
                                                   "Refund", balance))
        /\ refunds' = [refunds EXCEPT ![loc[w].id] = Processed(@, "rejected", now)]
        /\ Respond(w, Ok(MsgRefundRejected))
    /\ UNCHANGED <<meals, attendance, next_meal_id, now, loc>>

process_refund_reject(w) ==
    /\ pc[w] = "process_refund_reject"
    /\ refunds' = [refunds EXCEPT ![loc[w].id] = Processed(@, "rejected", now)]
    /\ Respond(w, Ok(MsgRefundRejected))
    /\ UNCHANGED <<users, txns, meals, attendance, next_meal_id, now, loc>>

process_refund(w) ==
    \/ process_refund_load(w)
    \/ process_refund_student(w)
    \/ process_refund_approve(w)
    \/ process_refund_reject(w)

(***************************************************************************)
(* The clock.                                                              *)
(***************************************************************************)
Tick ==
    /\ now < MaxNow
    /\ now' = now + 1
    /\ UNCHANGED <<db, pc, loc, resp>>

(***************************************************************************)
(* The values a request can carry.                                         *)
(***************************************************************************)
InitialBalances == {-1, 0, 2}
Amounts == {-1, 1}
Dates == {0, 1}
MealTypes == {"breakfast", "lunch"}
Prices == {1, 2}
UnknownRoll == "2024-CS-9"
\* the admin, the student, and an id no account has
UserIds == {1, 2, 3}
MealIds == 1..MaxMeals
Actions == {"approve", "reject", "cancel"}

Request(op) == [NoLoc EXCEPT !.op = op]

RegisterRequests(rolls, balances) ==
    {[Request("register_student") EXCEPT !.roll = r, !.amount = b] : r \in rolls, b \in balances}

ToggleStudentRequests(ids) == {[Request("toggle_student_status") EXCEPT !.id = u] : u \in ids}

AddBalanceRequests(ops, ids, amounts) ==
    IF Len(txns) >= MaxTxns THEN {}
    ELSE {[Request(op) EXCEPT !.id = u, !.amount = a] : op \in ops, u \in ids, a \in amounts}

CreateMealRequests(dates, types, prices) ==
    IF next_meal_id > MaxMeals THEN {}
    ELSE {[Request("manage_meals") EXCEPT !.date = d, !.meal_type = t, !.amount = p] :
            d \in dates, t \in types, p \in prices}

ScanRequests(rolls, ids) ==
    IF Len(txns) >= MaxTxns THEN {}
    ELSE {[Request("process_scan") EXCEPT !.roll = r, !.id = m] : r \in rolls, m \in ids}

DeleteMealRequests(ids) == {[Request("delete_meal") EXCEPT !.id = m] : m \in ids}

EditMealRequests(ids, dates, types, prices, actives) ==
    {[Request("edit_meal") EXCEPT !.id = m, !.date = d, !.meal_type = t, !.amount = p,
                                  !.is_active = a] :
        m \in ids, d \in dates, t \in types, p \in prices, a \in actives}

RefundRequests(user_ids, attendance_ids) ==
    IF Len(refunds) >= MaxRefunds THEN {}
    ELSE {[Request("request_refund") EXCEPT !.current_user = u, !.id = a] :
            u \in user_ids, a \in attendance_ids}

\* the JSON is_active of toggle_meal: true, false, or no such key
ToggleValues == {"true", "false", "absent"}

ToggleMealRequests(ids, values) ==
    {[Request("toggle_meal") EXCEPT !.id = m, !.action = v] : m \in ids, v \in values}

ProcessRefundRequests(ids, actions) ==
    IF Len(txns) >= MaxTxns THEN {}
    ELSE {[Request("process_refund") EXCEPT !.id = r, !.action = a] : r \in ids, a \in actions}

(***************************************************************************)
(* Spec: one request at a time (the handlers run to completion, in any     *)
(* order), from the database init_db.py leaves.                            *)
(***************************************************************************)
Init ==
    /\ users = <<AdminUser>>
    /\ txns = <<>>
    /\ meals = {}
    /\ attendance = <<>>
    /\ refunds = <<>>
    /\ next_meal_id = 1
    /\ now = 0
    /\ pc = [w \in Workers |-> "idle"]
    /\ loc = [w \in Workers |-> NoLoc]
    /\ resp = [w \in Workers |-> NoResp]

WalletRequests ==
    RegisterRequests(RollInputs, InitialBalances)
        \cup ToggleStudentRequests(UserIds)
        \cup AddBalanceRequests({"add_balance", "api_add_balance"}, UserIds, Amounts)
        \cup CreateMealRequests({0}, MealTypes, Prices)
        \cup ScanRequests({"2024-CS-1", UnknownRoll, "admin"}, MealIds)

WalletStep(w) ==
    \/ \E req \in WalletRequests : before_request(w, req)
    \/ register_student(w)
    \/ toggle_student_status(w)
    \/ add_balance(w)
    \/ manage_meals(w)
    \/ process_scan(w)
    \/ send_response(w)

Next == WalletStep("w1")

Spec == Init /\ [][Next]_vars

(***************************************************************************)
(* SpecScanRace: two handlers interleave at their database round trips.    *)
(* The database is one Spec reaches: a student registered with balance 2   *)
(* and two meals of today; the requests are scans of that student and      *)
(* deletions of the meals.                                                 *)
(***************************************************************************)
Student1 == User(2, "2024-CS-1", "student", 2)
InitialCredit == WalletTransaction(2, 2, "credit", "Initial wallet balance", 2)

InitScanRace ==
    /\ users = <<AdminUser, Student1>>
    /\ txns = <<InitialCredit>>
    /\ \E p1 \in Prices, p2 \in Prices :
            meals = {Meal(1, 0, "breakfast", p1), Meal(2, 0, "lunch", p2)}
    /\ attendance = <<>>
    /\ refunds = <<>>
    /\ next_meal_id = 3
    /\ now = 0
    /\ pc = [w \in Workers |-> "idle"]
    /\ loc = [w \in Workers |-> NoLoc]
    /\ resp = [w \in Workers |-> NoResp]

ScanRaceRequests == ScanRequests({"2024-CS-1"}, MealIds) \cup DeleteMealRequests(MealIds)

ScanRaceStep(w) ==
    \/ \E req \in ScanRaceRequests : before_request(w, req)
    \/ process_scan(w)
    \/ delete_meal(w)
    \/ send_response(w)

NextScanRace == \E w \in Workers : ScanRaceStep(w)

SpecScanRace == InitScanRace /\ [][NextScanRace]_vars

(***************************************************************************)
(* SpecRefund: one request at a time, from a database Spec reaches (a      *)
(* student with balance 2, one meal of today): scans, meal edits, refund   *)
(* requests and their resolution, while the clock runs.                    *)
(***************************************************************************)
InitRefund ==
    /\ users = <<AdminUser, Student1>>
    /\ txns = <<InitialCredit>>
    /\ \E p \in Prices : meals = {Meal(1, 0, "breakfast", p)}
    /\ attendance = <<>>
    /\ refunds = <<>>
    /\ next_meal_id = 2
    /\ now = 0
    /\ pc = [w \in Workers |-> "idle"]
    /\ loc = [w \in Workers |-> NoLoc]
    /\ resp = [w \in Workers |-> NoResp]

RefundFlowRequests ==
    ScanRequests({"2024-CS-1"}, {1})
        \cup EditMealRequests({1}, {0}, {"breakfast"}, Prices, {TRUE})
        \cup RefundRequests(UserIds, 1..MaxRefunds)
        \cup ProcessRefundRequests(1..MaxRefunds, Actions)

RefundStep(w) ==
    \/ \E req \in RefundFlowRequests : before_request(w, req)
    \/ process_scan(w)
    \/ edit_meal(w)
    \/ request_refund(w)
    \/ process_refund(w)
    \/ send_response(w)

NextRefund == RefundStep("w1") \/ Tick

SpecRefund == InitRefund /\ [][NextRefund]_vars

(***************************************************************************)
(* SpecRefundRace: two handlers interleave over one pending refund request *)
(* (the student of SpecRefund has scanned a meal of price 1 and asked for  *)
(* the refund).                                                            *)
(***************************************************************************)
InitRefundRace ==
    /\ users = <<AdminUser, [Student1 EXCEPT !.wallet_balance = 1]>>
    /\ meals = {Meal(1, 0, "breakfast", 1)}
    /\ txns = <<InitialCredit, WalletTransaction(2, -1, "debit", "Breakfast on 0", 1)>>
    /\ attendance = <<Attendance(1, 2, 1, 1, 0)>>
    /\ refunds = <<RefundRequest(1, 2, 1, 1)>>
    /\ next_meal_id = 2
    /\ now = 0
    /\ pc = [w \in Workers |-> "idle"]
    /\ loc = [w \in Workers |-> NoLoc]
    /\ resp = [w \in Workers |-> NoResp]

RefundRaceStep(w) ==
    \/ \E req \in ProcessRefundRequests({1}, Actions) : before_request(w, req)
    \/ process_refund(w)
    \/ send_response(w)

NextRefundRace == (\E w \in Workers : RefundRaceStep(w)) \/ Tick

SpecRefundRace == InitRefundRace /\ [][NextRefundRace]_vars

(***************************************************************************)
(* SpecRequestRace: two request_refund handlers interleave, from the       *)
(* database of SpecRefundRace before the refund was asked for (the student *)
(* has scanned the meal of price 1).                                       *)
(***************************************************************************)
InitRequestRace ==
    /\ users = <<AdminUser, [Student1 EXCEPT !.wallet_balance = 1]>>
    /\ meals = {Meal(1, 0, "breakfast", 1)}
    /\ txns = <<InitialCredit, WalletTransaction(2, -1, "debit", "Breakfast on 0", 1)>>
    /\ attendance = <<Attendance(1, 2, 1, 1, 0)>>
    /\ refunds = <<>>
    /\ next_meal_id = 2
    /\ now = 0
    /\ pc = [w \in Workers |-> "idle"]
    /\ loc = [w \in Workers |-> NoLoc]
    /\ resp = [w \in Workers |-> NoResp]

RequestRaceStep(w) ==
    \/ \E req \in RefundRequests(UserIds, 1..MaxRefunds) : before_request(w, req)
    \/ request_refund(w)
    \/ send_response(w)

NextRequestRace == (\E w \in Workers : RequestRaceStep(w)) \/ Tick

SpecRequestRace == InitRequestRace /\ [][NextRequestRace]_vars

(***************************************************************************)
(* SpecCatalog: one request at a time, from the database init_db.py        *)
(* leaves: meals are created and edited (date, type, price).               *)
(***************************************************************************)
CatalogRequests ==
    CreateMealRequests(Dates, MealTypes, Prices)
        \cup EditMealRequests(MealIds, Dates, MealTypes, Prices, {TRUE})

CatalogStep(w) ==
    \/ \E req \in CatalogRequests : before_request(w, req)
    \/ manage_meals(w)
    \/ edit_meal(w)
    \/ send_response(w)

NextCatalog == CatalogStep("w1")

SpecCatalog == Init /\ [][NextCatalog]_vars

(***************************************************************************)
(* SpecSweep: one request at a time, from the database init_db.py leaves:  *)
(* meals are created, edited (date, type, is_active) and toggled, the scan *)
(* page is opened, and the date changes between two requests.              *)
(***************************************************************************)
TickBetweenRequests ==
    /\ \A w \in Workers : pc[w] = "idle"
    /\ Tick

SweepRequests ==
    CreateMealRequests(Dates, MealTypes, {1})
        \cup EditMealRequests(MealIds, Dates, MealTypes, {1}, BOOLEAN)
        \cup ToggleMealRequests(MealIds, ToggleValues)
        \cup {Request("scan_qr")}

SweepStep(w) ==
    \/ \E req \in SweepRequests : before_request(w, req)
    \/ manage_meals(w)
    \/ edit_meal(w)
    \/ toggle_meal(w)
    \/ scan_qr(w)
    \/ send_response(w)

NextSweep == SweepStep("w1") \/ TickBetweenRequests

SpecSweep == Init /\ [][NextSweep]_vars

(***************************************************************************)
(* SpecPrice: one request at a time, from the database of SpecRefund (a    *)
(* student with balance 2, one meal of today): meals are created and       *)
(* edited with prices -1 and 1, which the forms both carry, and scanned.   *)
(***************************************************************************)
PriceStep(w) ==
    \/ \E req \in CreateMealRequests({0}, MealTypes, {-1, 1})
                    \cup EditMealRequests(MealIds, {0}, MealTypes, {-1, 1}, {TRUE})
                    \cup ScanRequests({"2024-CS-1"}, MealIds) :
            before_request(w, req)
    \/ manage_meals(w)
    \/ edit_meal(w)
    \/ process_scan(w)
    \/ send_response(w)

NextPrice == PriceStep("w1")

SpecPrice == InitRefund /\ [][NextPrice]_vars

(***************************************************************************)
(* SpecOwnership: the requests of SpecRequestRace, with a second student   *)
(* (registered with balance 0, so without a ledger entry) beside the one   *)
(* who has scanned.                                                        *)
(***************************************************************************)
InitOwnership ==
    /\ users = <<AdminUser, [Student1 EXCEPT !.wallet_balance = 1],
                 User(3, "2024-CS-2", "student", 0)>>
    /\ meals = {Meal(1, 0, "breakfast", 1)}
    /\ txns = <<InitialCredit, WalletTransaction(2, -1, "debit", "Breakfast on 0", 1)>>
    /\ attendance = <<Attendance(1, 2, 1, 1, 0)>>
    /\ refunds = <<>>
    /\ next_meal_id = 2
    /\ now = 0
    /\ pc = [w \in Workers |-> "idle"]
    /\ loc = [w \in Workers |-> NoLoc]
    /\ resp = [w \in Workers |-> NoResp]

SpecOwnership == InitOwnership /\ [][NextRequestRace]_vars

(***************************************************************************)
(* SpecCatalogRace: two handlers that create or edit meals of today        *)
(* interleave at their database round trips, from the empty catalog.       *)
(***************************************************************************)
CatalogRaceStep(w) ==
    \/ \E req \in CreateMealRequests({0}, MealTypes, {1})
                    \cup EditMealRequests(MealIds, {0}, MealTypes, {1}, {TRUE}) :
            before_request(w, req)
    \/ manage_meals(w)
    \/ edit_meal(w)
    \/ send_response(w)

NextCatalogRace == \E w \in Workers : CatalogRaceStep(w)

SpecCatalogRace == Init /\ [][NextCatalogRace]_vars

(***************************************************************************)
(* SpecScannable: one request at a time, from the database of SpecRefund:  *)
(* the meal is toggled and edited (is_active), the date changes between    *)
(* requests, and the student scans.                                        *)
(***************************************************************************)
ScannableStep(w) ==
    \/ \E req \in ScanRequests({"2024-CS-1"}, MealIds)
                    \cup ToggleMealRequests(MealIds, ToggleValues)
                    \cup EditMealRequests({1}, {0}, {"breakfast"}, {1}, BOOLEAN) :
            before_request(w, req)
    \/ process_scan(w)
    \/ toggle_meal(w)
    \/ edit_meal(w)
    \/ send_response(w)

NextScannable == ScannableStep("w1") \/ TickBetweenRequests

SpecScannable == InitRefund /\ [][NextScannable]_vars

(***************************************************************************)
(* What the properties below read off a state.                             *)
(***************************************************************************)
RECURSIVE SumOver(_, _)
SumOver(f, S) ==
    IF S = {} THEN 0
    ELSE LET x == CHOOSE y \in S : TRUE IN f[x] + SumOver(f, S \ {x})

LedgerOf(user_id) == {i \in 1..Len(txns) : txns[i].user_id = user_id}

LastOf(S) == CHOOSE i \in S : \A j \in S : j <= i

AttendancesOf(user_id, meal_id) ==
    {i \in 1..Len(attendance) :
        attendance[i].user_id = user_id /\ attendance[i].meal_id = meal_id}

ScanLabels ==
    {"process_scan", "process_scan_meal", "process_scan_attendance", "process_scan_commit"}

\* worker w is inside process_scan(roll_number of u, meal_id of m)
Scanning(w, u, m) ==
    /\ pc[w] \in ScanLabels
    /\ loc[w].op = "process_scan"
    /\ u.username = loc[w].roll /\ u.role = "student"
    /\ m.id = loc[w].id

Answers(w) == pc[w] # "respond" /\ pc'[w] = "respond"

(***************************************************************************)
(* C1.  Every account's wallet_balance equals the balance_after of its     *)
(* most recently appended WalletTransaction, or zero when it has none.     *)
(***************************************************************************)
C1_BalanceMatchesLedger ==
    \A u \in Rows(users) :
        u.wallet_balance =
            IF LedgerOf(u.id) = {} THEN 0 ELSE txns[LastOf(LedgerOf(u.id))].balance_after

(***************************************************************************)
(* C3.  With one request at a time: a process_scan for a (student, meal)   *)
(* pair that already has an Attendance changes no balance, ledger or       *)
(* attendance row and answers "already scanned"; the scan that succeeds    *)
(* debits the price once and adds exactly one debit WalletTransaction and  *)
(* the pair's only Attendance.                                             *)
(***************************************************************************)
C3_SecondScanRejected ==
    [][\A u \in Rows(users), m \in meals :
        (Scanning("w1", u, m) /\ u.is_active) =>
            /\ AttendancesOf(u.id, m.id) # {} =>
                /\ UNCHANGED <<users, txns, attendance>>
                /\ Answers("w1") => resp'["w1"] = Fail(MsgAlreadyScanned)
            /\ (Answers("w1") /\ resp'["w1"].success) =>
                /\ users'[u.id].wallet_balance = u.wallet_balance - m.price
                /\ Len(txns') = Len(txns) + 1
                /\ txns'[Len(txns')].user_id = u.id
                /\ txns'[Len(txns')].transaction_type = "debit"
                /\ Len(attendance') = Len(attendance) + 1
                /\ Cardinality({i \in 1..Len(attendance') :
                        attendance'[i].user_id = u.id /\ attendance'[i].meal_id = m.id}) = 1
      ]_vars

C3_Witness ==
    /\ pc["w1"] = "respond"
    /\ loc["w1"].op = "process_scan"
    /\ resp["w1"] = Fail(MsgAlreadyScanned)
    /\ Cardinality(AttendancesOf(loc["w1"].student.id, loc["w1"].id)) = 1

(***************************************************************************)
(* C5.  With one request at a time: for an active student and an existing  *)
(* meal with no Attendance for the pair, process_scan succeeds exactly     *)
(* when wallet_balance >= price (an equal balance is enough), fails as     *)
(* insufficient otherwise, and on success the new balance is the old one   *)
(* minus the price.                                                        *)
(***************************************************************************)
C5_ScanSucceedsIffFunded ==
    [][\A u \in Rows(users), m \in meals :
        (Scanning("w1", u, m) /\ u.is_active /\ AttendancesOf(u.id, m.id) = {}
            /\ Answers("w1")) =>
            /\ resp'["w1"].success <=> u.wallet_balance >= m.price
            /\ resp'["w1"].success =>
                /\ users'[u.id].wallet_balance = u.wallet_balance - m.price
                /\ resp'["w1"].new_balance = u.wallet_balance - m.price
            /\ ~resp'["w1"].success => resp'["w1"] = Fail(MsgInsufficient)
      ]_vars

C5_Witness ==
    /\ pc["w1"] = "respond"
    /\ loc["w1"].op = "process_scan"
    /\ resp["w1"].success
    /\ loc["w1"].student.wallet_balance = loc["w1"].meal.price
    /\ loc["w1"].meal.price > 0
    /\ users[loc["w1"].student.id].wallet_balance = 0

(***************************************************************************)
(* C6.  With one request at a time: a process_scan whose student has       *)
(* wallet_balance < price (student active, meal present, pair not yet      *)
(* scanned) changes no balance, WalletTransaction or Attendance and        *)
(* answers "insufficient balance".                                         *)
(***************************************************************************)
C6_InsufficientLeavesUnchanged ==
    [][\A u \in Rows(users), m \in meals :
        (Scanning("w1", u, m) /\ u.is_active /\ AttendancesOf(u.id, m.id) = {}
            /\ u.wallet_balance < m.price) =>
            /\ UNCHANGED <<users, txns, attendance>>
            /\ Answers("w1") => resp'["w1"] = Fail(MsgInsufficient)
      ]_vars

C6_Witness ==
    /\ pc["w1"] = "respond"
    /\ loc["w1"].op = "process_scan"
    /\ resp["w1"] = Fail(MsgInsufficient)
    /\ loc["w1"].student.wallet_balance = loc["w1"].meal.price - 1
    /\ txns # <<>>

(***************************************************************************)
(* C8.  With one request at a time: process_scan answers with the first    *)
(* failing precondition in the order student found (role student),         *)
(* student active, meal found, pair not yet scanned, balance sufficient.   *)
(***************************************************************************)
StudentsNamed(roll_number) ==
    {u \in Rows(users) : u.username = roll_number /\ u.role = "student"}

C8_Expected(roll_number, meal_id) ==
    IF StudentsNamed(roll_number) = {} THEN MsgStudentNotFound
    ELSE LET u == CHOOSE x \in StudentsNamed(roll_number) : TRUE IN
         IF ~u.is_active THEN MsgDeactivated
         ELSE IF \A m \in meals : m.id # meal_id THEN MsgMealNotFound
         ELSE LET m == CHOOSE x \in meals : x.id = meal_id IN
              IF AttendancesOf(u.id, meal_id) # {} THEN MsgAlreadyScanned
              ELSE IF u.wallet_balance < m.price THEN MsgInsufficient
              ELSE MsgScanSuccess

C8_FirstFailureReported ==
    [][(loc["w1"].op = "process_scan" /\ Answers("w1")) =>
            /\ resp'["w1"].message = C8_Expected(loc["w1"].roll, loc["w1"].id)
            /\ resp'["w1"].success <=> resp'["w1"].message = MsgScanSuccess
      ]_vars

\* two preconditions fail at once: the pair is already scanned and the balance is short
C8_Witness ==
    /\ pc["w1"] = "respond"
    /\ loc["w1"].op = "process_scan"
    /\ resp["w1"] = Fail(MsgAlreadyScanned)
    /\ loc["w1"].student.wallet_balance < loc["w1"].meal.price

(***************************************************************************)
(* C2.  Two scans of one student against two different meals: the balance  *)
(* never goes below zero, and two scans never both succeed when the money  *)
(* the account was credited covers only one of them.                       *)
(***************************************************************************)
Credited(user_id) ==
    SumOver([i \in 1..Len(txns) |-> txns[i].amount],
            {i \in LedgerOf(user_id) : txns[i].transaction_type = "credit"})

C2_NoOverdraftNoDoubleSpend ==
    \A u \in Rows(users) :
        /\ u.wallet_balance >= 0
        /\ \A i, j \in 1..Len(attendance) :
            (/\ attendance[i].user_id = u.id
             /\ attendance[j].user_id = u.id
             /\ attendance[i].meal_id # attendance[j].meal_id) =>
                attendance[i].amount_paid + attendance[j].amount_paid <= Credited(u.id)

(***************************************************************************)
(* C4.  There is at most one Attendance row per (user_id, meal_id).        *)
(***************************************************************************)
C4_UniqueAttendance ==
    \A i, j \in 1..Len(attendance) :
        (attendance[i].user_id = attendance[j].user_id
            /\ attendance[i].meal_id = attendance[j].meal_id) => i = j

(***************************************************************************)
(* C7.  Debit and attendance are written together: in every state, for     *)
(* each account and amount, the Attendance rows of that amount_paid and    *)
(* the debit WalletTransactions of minus that amount are equally many, so  *)
(* they pair off one to one and neither exists without the other.          *)
(***************************************************************************)
PaidRows(user_id, amount) ==
    {i \in 1..Len(attendance) :
        attendance[i].user_id = user_id /\ attendance[i].amount_paid = amount}

DebitRows(user_id, amount) ==
    {i \in 1..Len(txns) :
        /\ txns[i].user_id = user_id
        /\ txns[i].transaction_type = "debit"
        /\ txns[i].amount = -amount}

C7_DebitAttendancePaired ==
    /\ \A i \in 1..Len(attendance) :
        Cardinality(PaidRows(attendance[i].user_id, attendance[i].amount_paid))
            = Cardinality(DebitRows(attendance[i].user_id, attendance[i].amount_paid))
    /\ \A i \in 1..Len(txns) :
        txns[i].transaction_type = "debit" =>
            Cardinality(DebitRows(txns[i].user_id, -txns[i].amount))
                = Cardinality(PaidRows(txns[i].user_id, -txns[i].amount))

\* a scan was rolled back by the foreign key while another one had committed
C7_Witness ==
    /\ attendance # <<>>
    /\ \E w \in Workers :
        /\ pc[w] = "respond"
        /\ loc[w].op = "process_scan"
        /\ resp[w] = Fail(MsgIntegrityError)

(***************************************************************************)
(* C9.  With one request at a time: approving a pending refund request     *)
(* adds exactly the amount_paid of its attendance to the requester's       *)
(* balance and appends one credit WalletTransaction of that amount,        *)
(* whatever the meal's price is by then.                                   *)
(***************************************************************************)
C9_ApproveCreditsAmountPaid ==
    [][(pc["w1"] = "process_refund_approve" /\ Answers("w1")) =>
        LET r == refunds[loc["w1"].id]
            paid == attendance[r.attendance_id].amount_paid
        IN  /\ r.status = "pending"
            /\ users'[r.user_id].wallet_balance = users[r.user_id].wallet_balance + paid
            /\ \A u \in 1..Len(users) :
                u # r.user_id => users'[u].wallet_balance = users[u].wallet_balance
            /\ Len(txns') = Len(txns) + 1
            /\ SubSeq(txns', 1, Len(txns)) = txns
            /\ txns'[Len(txns')].user_id = r.user_id
            /\ txns'[Len(txns')].amount = paid
            /\ txns'[Len(txns')].transaction_type = "credit"
            /\ txns'[Len(txns')].balance_after = users[r.user_id].wallet_balance + paid
            /\ refunds'[r.id].status = "approved"
      ]_vars

\* approved after edit_meal changed the price the student had paid
C9_Witness ==
    /\ pc["w1"] = "respond"
    /\ loc["w1"].op = "process_refund"
    /\ resp["w1"] = Ok(MsgRefundApproved)
    /\ LET r == refunds[loc["w1"].id] IN
        /\ r.status = "approved"
        /\ MealGet(attendance[r.attendance_id].meal_id).price
                # attendance[r.attendance_id].amount_paid
        /\ txns[Len(txns)].amount = attendance[r.attendance_id].amount_paid

(***************************************************************************)
(* C10.  A RefundRequest that is approved or rejected never changes        *)
(* again, and a process_refund that finds it so answers "already           *)
(* processed" and changes no request, balance or ledger entry.             *)
(***************************************************************************)
C10_TerminalStatus ==
    [][/\ \A i \in 1..Len(refunds) :
            refunds[i].status # "pending" => refunds'[i].status = refunds[i].status
       /\ \A w \in Workers :
            (pc[w] = "process_refund" /\ pc'[w] # pc[w]
                /\ loc[w].id \in 1..Len(refunds)
                /\ refunds[loc[w].id].status # "pending") =>
                    /\ resp'[w] = Fail(MsgAlreadyProcessed)
                    /\ UNCHANGED <<users, txns, refunds>>
      ]_vars

(***************************************************************************)
(* C11.  A refund request is paid out at most once: the ledger holds at    *)
(* most one refund credit for it, and the requester's balance is at most   *)
(* the sum of the other ledger entries plus the request's amount, also     *)
(* when two approvals of the request interleave.                           *)
(***************************************************************************)
RefundCreditsOf(r) ==
    {i \in LedgerOf(r.user_id) :
        /\ txns[i].transaction_type = "credit"
        /\ txns[i].description
                = RefundDescription(MealGet(AttendanceGet(r.attendance_id).meal_id))}

C11_CreditedAtMostOnce ==
    \A r \in Rows(refunds) :
        /\ Cardinality(RefundCreditsOf(r)) <= 1
        /\ users[r.user_id].wallet_balance
                <= SumOver([i \in 1..Len(txns) |-> txns[i].amount],
                           LedgerOf(r.user_id) \ RefundCreditsOf(r)) + r.amount

(***************************************************************************)
(* C12.  With one request at a time: a request_refund of the attendance's  *)
(* owner, with no request on file for it, goes on to create the pending    *)
(* RefundRequest when at most 24 hours (24 included) have passed since     *)
(* scanned_at, and answers "window expired" creating nothing when more     *)
(* than 24 hours have passed.                                              *)
(***************************************************************************)
HoursSince(scanned_at) == (now - scanned_at) * HoursPerTick

C12_RefundWindow ==
    [][/\ (/\ pc["w1"] = "request_refund_check" /\ pc'["w1"] # pc["w1"]
            /\ \A r \in Rows(refunds) : r.attendance_id # loc["w1"].id) =>
                LET elapsed == HoursSince(attendance[loc["w1"].id].scanned_at) IN
                /\ UNCHANGED refunds
                /\ elapsed <= 24 => pc'["w1"] = "request_refund_commit"
                /\ elapsed > 24 => resp'["w1"] = Fail(MsgWindowExpired)
       /\ (pc["w1"] = "request_refund_commit" /\ pc'["w1"] # pc["w1"]) =>
                /\ resp'["w1"] = Ok(MsgRefundSubmitted)
                /\ refunds' = Append(refunds,
                        RefundRequest(Len(refunds) + 1, attendance[loc["w1"].id].user_id,
                                      loc["w1"].id, attendance[loc["w1"].id].amount_paid))
      ]_vars

\* accepted exactly 24 hours after the scan
C12_Witness ==
    /\ pc["w1"] = "request_refund_commit"
    /\ HoursSince(loc["w1"].attendance.scanned_at) = 24

\* refused later than 24 hours after the scan
C12_WitnessExpired ==
    /\ pc["w1"] = "respond"
    /\ loc["w1"].op = "request_refund"
    /\ resp["w1"] = Fail(MsgWindowExpired)
    /\ refunds = <<>>

(***************************************************************************)
(* C13.  With one request at a time: while a RefundRequest is on file for  *)
(* an attendance, pending, approved or rejected, a request_refund for that *)
(* attendance creates nothing, and the one of the attendance's owner is    *)
(* answered "refund already requested".                                    *)
(***************************************************************************)
RefundLabels == {"request_refund", "request_refund_check", "request_refund_commit"}

RequestsOf(attendance_id) == {r \in Rows(refunds) : r.attendance_id = attendance_id}

C13_DuplicateRejected ==
    [][(pc["w1"] \in RefundLabels /\ RequestsOf(loc["w1"].id) # {}) =>
            /\ UNCHANGED refunds
            /\ (/\ Answers("w1")
                /\ UserGet(loc["w1"].current_user).role = "student"
                /\ attendance[loc["w1"].id].user_id = loc["w1"].current_user) =>
                    resp'["w1"] = Fail(MsgRefundExists)
      ]_vars

\* a rejected refund is asked for again, still inside the 24 hours
C13_Witness ==
    /\ pc["w1"] = "respond"
    /\ loc["w1"].op = "request_refund"
    /\ resp["w1"] = Fail(MsgRefundExists)
    /\ \A r \in RequestsOf(loc["w1"].id) : r.status = "rejected"
    /\ HoursSince(loc["w1"].attendance.scanned_at) <= 24

(***************************************************************************)
(* C14.  There is at most one RefundRequest per attendance_id, also when   *)
(* two request_refund calls for the attendance interleave.                 *)
(***************************************************************************)
C14_UniqueRefundRequest ==
    \A i, j \in 1..Len(refunds) :
        refunds[i].attendance_id = refunds[j].attendance_id => i = j

(***************************************************************************)
(* C15.  With one request at a time: process_refund with action reject on  *)
(* a pending request sets its status to rejected (with the remarks and     *)
(* processed_at) and changes no wallet_balance and no WalletTransaction;   *)
(* no process_refund step with an action other than approve changes a      *)
(* balance or the ledger.                                                  *)
(***************************************************************************)
ProcessRefundLabels ==
    {"process_refund", "process_refund_student", "process_refund_approve",
     "process_refund_reject"}

C15_RejectLeavesLedger ==
    [][pc["w1"] \in ProcessRefundLabels =>
        /\ loc["w1"].action # "approve" => UNCHANGED <<users, txns>>
        /\ (/\ loc["w1"].action = "reject"
            /\ RefundGet(loc["w1"].id).status = "pending"
            /\ Answers("w1")) =>
                /\ resp'["w1"] = Ok(MsgRefundRejected)
                /\ refunds' = [refunds EXCEPT ![loc["w1"].id] =
                        [@ EXCEPT !.status = "rejected", !.admin_remarks = Remarks,
                                  !.processed_at = now]]
                /\ UNCHANGED <<users, txns>>
      ]_vars

C15_Witness ==
    /\ pc["w1"] = "respond"
    /\ loc["w1"].op = "process_refund"
    /\ loc["w1"].action = "reject"
    /\ resp["w1"] = Ok(MsgRefundRejected)
    /\ refunds[loc["w1"].id].status = "rejected"
    /\ users[refunds[loc["w1"].id].user_id].wallet_balance
            = Student1.wallet_balance
                - attendance[refunds[loc["w1"].id].attendance_id].amount_paid

(***************************************************************************)
(* C16.  With one request at a time: process_refund on a pending request   *)
(* with an action that is neither approve nor reject answers "Invalid      *)
(* action" and changes no table: the request is still pending, without     *)
(* remarks or processed_at, so that a later approve or reject finds it     *)
(* pending.                                                                *)
(***************************************************************************)
C16_InvalidActionNoChange ==
    [][(/\ pc["w1"] = "process_refund" /\ pc'["w1"] # pc["w1"]
        /\ loc["w1"].action \notin {"approve", "reject"}
        /\ RefundGet(loc["w1"].id).status = "pending") =>
            /\ resp'["w1"] = Fail(MsgInvalidAction)
            /\ UNCHANGED db
            /\ refunds'[loc["w1"].id].status = "pending"
            /\ refunds'[loc["w1"].id].admin_remarks = NoRemarks
            /\ refunds'[loc["w1"].id].processed_at = NoTime
      ]_vars

C16_Witness ==
    /\ pc["w1"] = "respond"
    /\ loc["w1"].op = "process_refund"
    /\ loc["w1"].action = "cancel"
    /\ resp["w1"] = Fail(MsgInvalidAction)
    /\ refunds[loc["w1"].id] = loc["w1"].refund
    /\ loc["w1"].refund.status = "pending"

(***************************************************************************)
(* C17.  With one request at a time: no two meals share (date, meal_type). *)
(* A manage_meals create whose (date, meal_type) exists answers "already   *)
(* exists" and adds nothing, any other create adds that one meal; an       *)
(* edit_meal whose new (date, meal_type) belongs to a different meal       *)
(* answers "another meal already exists" and leaves the catalog unchanged, *)
(* any other edit, the one keeping the meal's own (date, meal_type)        *)
(* included, writes the form's values to the meal.                         *)
(***************************************************************************)
MealsAt(catalog, meal_date, meal_type) ==
    {m \in catalog : m.date = meal_date /\ m.meal_type = meal_type}

UniqueDateType(catalog) ==
    \A m1, m2 \in catalog :
        (m1.date = m2.date /\ m1.meal_type = m2.meal_type) => m1 = m2

C17_CreateStep ==
    pc["w1"] \in {"manage_meals", "manage_meals_commit"} =>
        IF MealsAt(meals, loc["w1"].date, loc["w1"].meal_type) # {}
        THEN /\ UNCHANGED meals
             /\ Answers("w1") => resp'["w1"] = Fail(MsgMealExists)
        ELSE Answers("w1") =>
                /\ resp'["w1"] = Ok(MsgMealAdded)
                /\ Cardinality(meals') = Cardinality(meals) + 1
                /\ meals \subseteq meals'
                /\ \A m \in meals' \ meals :
                        /\ m.date = loc["w1"].date
                        /\ m.meal_type = loc["w1"].meal_type
                        /\ m.price = loc["w1"].amount

C17_UpdateStep ==
    (pc["w1"] \in {"edit_meal", "edit_meal_check", "edit_meal_commit"}
        /\ \E m \in meals : m.id = loc["w1"].id) =>
        LET meal == CHOOSE m \in meals : m.id = loc["w1"].id IN
        IF MealsAt(meals, loc["w1"].date, loc["w1"].meal_type) \ {meal} # {}
        THEN /\ UNCHANGED meals
             /\ Answers("w1") => resp'["w1"] = Fail(MsgOtherMealExists)
        ELSE Answers("w1") =>
                /\ resp'["w1"] = Ok(MsgMealUpdated)
                /\ meals' = (meals \ {meal}) \cup
                        {[meal EXCEPT !.date = loc["w1"].date,
                                      !.meal_type = loc["w1"].meal_type,
                                      !.price = loc["w1"].amount,
                                      !.is_active = loc["w1"].is_active]}

C17_UniqueMeals ==
    [][/\ UniqueDateType(meals) /\ UniqueDateType(meals')
       /\ C17_CreateStep
       /\ C17_UpdateStep
      ]_vars

\* an edit that keeps the meal's own date and type and changes its price, beside another meal
C17_Witness ==
    /\ pc["w1"] = "respond"
    /\ loc["w1"].op = "edit_meal"
    /\ resp["w1"] = Ok(MsgMealUpdated)
    /\ loc["w1"].meal.date = loc["w1"].date
    /\ loc["w1"].meal.meal_type = loc["w1"].meal_type
    /\ loc["w1"].meal.price # loc["w1"].amount
    /\ MealGet(loc["w1"].id).price = loc["w1"].amount
    /\ Cardinality(meals) = MaxMeals

(***************************************************************************)
(* C18.  Every Attendance references a meal of the catalog.  A delete_meal *)
(* that counts one or more Attendance rows of its meal answers "cannot     *)
(* delete" and leaves the catalog unchanged, and a step removes a meal     *)
(* only when no Attendance references it; this also holds while scans and  *)
(* deletions interleave.                                                   *)
(***************************************************************************)
MealIdsOf(catalog) == {m.id : m \in catalog}

C18_NoDeleteWithAttendance ==
    [][/\ \A i \in 1..Len(attendance') : attendance'[i].meal_id \in MealIdsOf(meals')
       /\ \A id \in MealIdsOf(meals) \ MealIdsOf(meals') :
            /\ AttendanceCount(id) = 0
            /\ \E w \in Workers : loc[w].op = "delete_meal" /\ loc[w].id = id
       /\ \A w \in Workers :
            (/\ pc[w] \in {"delete_meal_count", "delete_meal_commit"}
             /\ pc'[w] # pc[w]
             /\ AttendanceCount(loc[w].id) > 0) =>
                /\ UNCHANGED meals
                /\ pc[w] = "delete_meal_count" => resp'[w] = Fail(MsgMealHasAttendance)
                /\ pc'[w] = "respond" /\ ~resp'[w].success
      ]_vars

C18_Witness ==
    \E w \in Workers :
        /\ pc[w] = "respond"
        /\ loc[w].op = "delete_meal"
        /\ resp[w] = Fail(MsgMealHasAttendance)
        /\ MealGet(loc[w].id) = loc[w].meal
        /\ AttendanceCount(loc[w].id) > 0

\* a meal without attendance is removed beside a meal that has one
C18_WitnessDeleted ==
    \E w \in Workers :
        /\ pc[w] = "respond"
        /\ resp[w] = Ok(MsgMealDeleted)
        /\ MealGet(loc[w].id) = NoMeal
        /\ attendance # <<>>

(***************************************************************************)
(* C19.  The sweep at the start of a request turns is_active off for       *)
(* exactly the active meals dated before today: every meal keeps its id,   *)
(* date, type and price, a meal is active afterwards exactly when it was   *)
(* active and is not dated before today, no other table changes, and       *)
(* sweeping the result again with the same date changes nothing.           *)
(***************************************************************************)
C19_SweepExactIdempotent ==
    [][(pc["w1"] = "idle" /\ pc'["w1"] # "idle") =>
        /\ Cardinality(meals') = Cardinality(meals)
        /\ \A m \in meals : \E n \in meals' :
                /\ n.id = m.id /\ n.date = m.date
                /\ n.meal_type = m.meal_type /\ n.price = m.price
                /\ n.is_active = (m.is_active /\ m.date >= Today)
        /\ deactivate_past_meals(meals', Today) = meals'
        /\ UNCHANGED <<users, txns, attendance, refunds, next_meal_id>>
      ]_vars

\* the request has just started: a past meal is off beside an active meal of today
C19_Witness ==
    /\ pc["w1"] \in {"manage_meals", "edit_meal", "toggle_meal", "scan_qr"}
    /\ \E m \in meals : m.date < Today /\ ~m.is_active
    /\ \E m \in meals : m.date = Today /\ m.is_active

(***************************************************************************)
(* C20.  With one request at a time and no change of date while a request  *)
(* runs: at every point where a handler reads the meals table, no meal     *)
(* dated before today is active, also after edit_meal or toggle_meal       *)
(* turned is_active on for a past meal.                                    *)
(***************************************************************************)
CatalogReadLabels == {"manage_meals", "edit_meal", "edit_meal_check", "toggle_meal", "scan_qr"}

C20_WitnessEdit ==
    /\ pc["w1"] = "respond"
    /\ loc["w1"].op = "edit_meal"
    /\ resp["w1"] = Ok(MsgMealUpdated)
    /\ MealGet(loc["w1"].id).date < Today
    /\ MealGet(loc["w1"].id).is_active

(***************************************************************************)
(* C21.  Each account's ledger is a chain: every WalletTransaction after   *)
(* the account's first has balance_after equal to the balance_after of the *)
(* account's previous entry plus its own amount, also when the operations  *)
(* on the account interleave.                                              *)
(***************************************************************************)
EarlierOf(i) == {j \in LedgerOf(txns[i].user_id) : j < i}

C21_LedgerChain ==
    \A i \in 1..Len(txns) :
        EarlierOf(i) # {} =>
            txns[i].balance_after = txns[LastOf(EarlierOf(i))].balance_after + txns[i].amount

(***************************************************************************)
(* C22.  The ledger and the attendance table are append-only: every step   *)
(* leaves the existing WalletTransactions and Attendance rows as they are  *)
(* and in place (so each account's ledger of a later state extends the one *)
(* of every earlier state), also when edit_meal changes the price of a     *)
(* meal that has been scanned.                                             *)
(***************************************************************************)
C22_AppendOnly ==
    [][/\ Len(txns') >= Len(txns)
       /\ SubSeq(txns', 1, Len(txns)) = txns
       /\ Len(attendance') >= Len(attendance)
       /\ SubSeq(attendance', 1, Len(attendance)) = attendance
      ]_vars

\* edit_meal has changed the price of a scanned meal
C22_Witness ==
    /\ pc["w1"] = "respond"
    /\ loc["w1"].op = "edit_meal"
    /\ resp["w1"] = Ok(MsgMealUpdated)
    /\ loc["w1"].meal.price # loc["w1"].amount
    /\ \E i \in 1..Len(attendance) :
            /\ attendance[i].meal_id = loc["w1"].id
            /\ attendance[i].amount_paid = loc["w1"].meal.price
    /\ \E i \in 1..Len(txns) : txns[i].amount = -loc["w1"].meal.price

(***************************************************************************)
(* C23.  Every WalletTransaction is a credit exactly when its amount is    *)
(* positive and a debit exactly when its amount is negative.               *)
(***************************************************************************)
C23_TypeMatchesSign ==
    \A i \in 1..Len(txns) :
        /\ txns[i].transaction_type = "credit" <=> txns[i].amount > 0
        /\ txns[i].transaction_type = "debit" <=> txns[i].amount < 0

(***************************************************************************)
(* C24.  Wallet state exists only for students: no step changes the        *)
(* wallet_balance of an account whose role is admin or appends a           *)
(* WalletTransaction for it.                                               *)
(***************************************************************************)
C24_AdminWalletUntouched ==
    [][\A id \in 1..Len(users) :
        users[id].role = "admin" =>
            /\ users'[id].wallet_balance = users[id].wallet_balance
            /\ \A i \in Len(txns) + 1..Len(txns') : txns'[i].user_id # id
      ]_vars

(***************************************************************************)
(* C25.  Every meal's price is non-negative, and no process_scan step      *)
(* raises a balance.                                                       *)
(***************************************************************************)
C25_NonNegativePrice ==
    [][/\ \A m \in meals' : m.price >= 0
       /\ \A w \in Workers :
            pc[w] = "process_scan_commit" =>
                \A id \in 1..Len(users) :
                    users'[id].wallet_balance <= users[id].wallet_balance
      ]_vars

(***************************************************************************)
(* C26.  A request_refund of a student for an attendance of another        *)
(* account answers "Unauthorized" and creates nothing, and every           *)
(* RefundRequest carries the user_id and the amount_paid of the Attendance *)
(* it references.                                                          *)
(***************************************************************************)
C26_RefundOwnership ==
    [][/\ \A i \in 1..Len(refunds') :
            /\ refunds'[i].attendance_id \in 1..Len(attendance')
            /\ refunds'[i].user_id = attendance'[refunds'[i].attendance_id].user_id
            /\ refunds'[i].amount = attendance'[refunds'[i].attendance_id].amount_paid
       /\ \A w \in Workers :
            (/\ pc[w] \in RefundLabels /\ pc'[w] # pc[w]
             /\ UserGet(loc[w].current_user).role = "student"
             /\ loc[w].id \in 1..Len(attendance)
             /\ attendance[loc[w].id].user_id # loc[w].current_user) =>
                /\ UNCHANGED refunds
                /\ resp'[w] = Fail(MsgUnauthorized)
      ]_vars

C26_Witness ==
    \E w \in Workers :
        /\ pc[w] = "respond"
        /\ loc[w].op = "request_refund"
        /\ UserGet(loc[w].current_user).role = "student"
        /\ loc[w].attendance # NoAttendance
        /\ loc[w].attendance.user_id # loc[w].current_user
        /\ resp[w] = Fail(MsgUnauthorized)

(***************************************************************************)
(* C27.  No two meals share (date, meal_type), also when two create or     *)
(* edit requests for the same pair interleave between the existence check  *)
(* and the commit.                                                         *)
(***************************************************************************)
C27_UniqueMealsInterleaved ==
    \A m1, m2 \in meals :
        (m1.date = m2.date /\ m1.meal_type = m2.meal_type) => m1.id = m2.id

(***************************************************************************)
(* C28.  No process_scan step adds an Attendance or lowers a balance for a *)
(* meal whose is_active is false at that moment.                           *)
(***************************************************************************)
C28_InactiveMealNotScanned ==
    [][\A w \in Workers :
        (/\ pc[w] = "process_scan_commit"
         /\ \/ Len(attendance') > Len(attendance)
            \/ \E id \in 1..Len(users) :
                    users'[id].wallet_balance < users[id].wallet_balance) =>
            MealGet(loc[w].id).is_active
      ]_vars

(***************************************************************************)
(* C29.  With one request at a time: every student's wallet_balance is     *)
(* greater than or equal to zero.                                          *)
(***************************************************************************)
C29_NoOverdraft ==
    \A u \in Rows(users) : u.role = "student" => u.wallet_balance >= 0

====
